---- MODULE Spec2Model ----
(***************************************************************************)
(* A model of ytdlp_plugins: the virtual namespace packages that           *)
(* PluginFinder aggregates over sys.path, the loading pass of              *)
(* load_plugins, the registration of add_plugins and the report of         *)
(* plugin_debug_header.                                                    *)
(*                                                                         *)
(* Strings are sequences of tokens (a token is a run of characters that    *)
(* no operation of the program cuts), so that split, join, startswith and  *)
(* endswith are computed and not assumed.  A pathlib.Path is the sequence  *)
(* of its segments, each segment a string.                                 *)
(***************************************************************************)
EXTENDS Integers, Sequences, FiniteSets, TLC

\* ------------------------------------------------------------------ bounds

\* how long sys.path grows: the entries of the start and the appended ones
MaxPathLen == 2
\* how many times add_plugins() is called
MaxPasses == 2
\* how many threads call initialize()
MaxThreads == 2
\* how many sleep durations retry_durations_s holds
MaxRetries == 2
\* how many items the blog of a user holds
MaxItems == 101

\* ----------------------------------------------------------------- strings

DOT == "."
SLASH == "/"

Last(s) == s[Len(s)]

\* str.startswith
StartsWith(s, p) == Len(p) <= Len(s) /\ SubSeq(s, 1, Len(p)) = p

\* str.endswith
EndsWith(s, p) ==
    Len(p) <= Len(s) /\ SubSeq(s, Len(s) - Len(p) + 1, Len(s)) = p

\* sep.join(parts)
RECURSIVE Join(_, _)
Join(parts, sep) ==
    IF parts = << >> THEN << >>
    ELSE IF Len(parts) = 1 THEN parts[1]
    ELSE parts[1] \o <<sep>> \o Join(Tail(parts), sep)

\* str.split(sep): the runs between the separators, empty runs included
RECURSIVE SplitFrom(_, _, _, _)
SplitFrom(s, sep, done, cur) ==
    IF s = << >> THEN Append(done, cur)
    ELSE SplitFrom(Tail(s), sep,
                   IF Head(s) = sep THEN Append(done, cur) ELSE done,
                   IF Head(s) = sep THEN << >> ELSE Append(cur, Head(s)))

Split(s, sep) == SplitFrom(s, sep, << >>, << >>)

\* the elements of a sequence
Range(s) == {s[i] : i \in 1..Len(s)}

\* the tokens of the model in the order of their characters
TOKEN_ORDER ==
    <<" ", " [", "'", ".py", ".zip", "/", "/d1", "/d2", "/p", "Bar", "Ex",
      "FFmpeg", "Foo", "Generic", "Helper", "IE", "Lib", "PP", "PeerTube",
      "Youtube", "]", "__init__", "_lib", "a", "ad", "b", "bar", "c",
      "common", "extractor", "fail", "ffmpeg", "foo", "generic", "lib",
      "make", "p", "peertube", "postprocessor", "youtube", "yt_dlp",
      "ytdlp_plugins">>

\* the number of characters of each token, in that order
TOKEN_WIDTH ==
    <<1, 2, 1, 3, 4, 1, 3, 3, 2, 3, 2, 6, 3, 7, 6, 2, 3, 2, 8, 7, 1, 8, 4,
      1, 2, 1, 3, 1, 6, 9, 4, 6, 3, 7, 3, 4, 1, 8, 13, 7, 6, 13>>

Rank(token) == CHOOSE i \in 1..Len(TOKEN_ORDER) : TOKEN_ORDER[i] = token

\* a < b for strings
RECURSIVE LessStr(_, _)
LessStr(a, b) ==
    IF a = << >> \/ b = << >> THEN b # << >>
    ELSE IF Head(a) # Head(b) THEN Rank(Head(a)) < Rank(Head(b))
    ELSE LessStr(Tail(a), Tail(b))

\* len(str)
RECURSIVE Width(_)
Width(str) ==
    IF str = << >> THEN 0 ELSE TOKEN_WIDTH[Rank(Head(str))] + Width(Tail(str))

\* a < b for paths: segment by segment
RECURSIVE LessPath(_, _)
LessPath(a, b) ==
    IF a = << >> \/ b = << >> THEN b # << >>
    ELSE IF Head(a) # Head(b) THEN LessStr(Head(a), Head(b))
    ELSE LessPath(Tail(a), Tail(b))

\* sorted(strings), for strings that differ
SortedStrs(strs) ==
    [i \in 1..Cardinality(strs) |->
        CHOOSE x \in strs : Cardinality({y \in strs : LessStr(y, x)}) = i - 1]

\* dict.fromkeys(seq).keys(): first occurrences, in order
RECURSIVE FromKeys(_, _)
FromKeys(s, keys) ==
    IF s = << >> THEN keys
    ELSE FromKeys(Tail(s),
                  IF Head(s) \in Range(keys) THEN keys ELSE Append(keys, Head(s)))

\* ------------------------------------------------------------------- paths

\* pathlib.Path(str): the segments between slashes; empty segments (a
\* doubled or trailing slash) are dropped
DropEmpty(segs) == SelectSeq(segs, LAMBDA seg : seg # << >>)

PathOf(str) == DropEmpty(Split(str, SLASH))

\* str(path)
StrOf(path) == Join(path, SLASH)

\* path.joinpath(*parts)
JoinPath(path, parts) == path \o parts

\* path in file.parents: a proper ancestor
IsParent(path, file) ==
    Len(path) < Len(file) /\ SubSeq(file, 1, Len(path)) = path

\* Path.suffix: the extension of the last segment
Suffix(path) ==
    IF path = << >> THEN ""
    ELSE IF Len(Last(path)) >= 2 THEN Last(Last(path))
    ELSE ""

ARCHIVE_SUFFIXES == {".zip", ".egg", ".whl"}

\* --------------------------------------------------------------- the world

PACKAGE_NAME == <<"ytdlp_plugins">>

\* f"{PACKAGE_NAME}.{subpackage}"
FullName(subpackage) == PACKAGE_NAME \o <<DOT>> \o subpackage

EXTRACTOR == <<"extractor">>
POSTPROCESSOR == <<"postprocessor">>

\* the entries that sys.path may hold: two plugin directories, the first of
\* them also spelled with a trailing slash, and one archive
D1 == <<"/d1">>
D1_SLASH == <<"/d1", SLASH>>
D2 == <<"/d2">>
P_ZIP == <<"/p", ".zip">>

Entries == {D1, D1_SLASH, D2, P_ZIP}

PY(name) == name \o <<".py">>

\* the files below /d1, the directory of the package itself, as os.listdir
\* sorts them
D1_FILES ==
    << <<PACKAGE_NAME, <<"__init__", ".py">> >>,
       <<PACKAGE_NAME, EXTRACTOR, PY(<<"a">>)>>,
       <<PACKAGE_NAME, EXTRACTOR, PY(<<"b">>)>>,
       <<PACKAGE_NAME, EXTRACTOR, PY(<<"b", "ad">>)>>,
       <<PACKAGE_NAME, POSTPROCESSOR, PY(<<"fail">>)>>,
       <<PACKAGE_NAME, POSTPROCESSOR, PY(<<"p">>)>> >>

\* /d2 is a user's plugin directory: an extractor module, a module beside it
\* that it imports from, and an empty postprocessor directory
D2_FILES ==
    << <<PACKAGE_NAME, EXTRACTOR, PY(<<"c">>)>>,
       <<PACKAGE_NAME, EXTRACTOR, PY(<<"c", "_lib">>)>> >>
D2_DIRS == { <<PACKAGE_NAME, POSTPROCESSOR>> }

Directory(files, dirs) == [kind |-> "dir", files |-> files, dirs |-> dirs]
Archive(files) == [kind |-> "zip", files |-> files, dirs |-> {}]
\* a regular file that is no archive
Corrupt == [kind |-> "corrupt", files |-> << >>, dirs |-> {}]
Missing == [kind |-> "missing", files |-> << >>, dirs |-> {}]

\* the path of a search-path root
RootPath(entry) == PathOf(entry)

ZIP_PATH == RootPath(P_ZIP)

\* Path.is_dir() on a file system fsys (a function from the paths of the
\* roots to what is there): the root directory itself, a directory that
\* was made in it, or an ancestor of one of its files
IsDir(fsys, path) ==
    \E root \in DOMAIN fsys :
        /\ fsys[root].kind = "dir"
        /\ StartsWith(path, root)
        /\ LET rel == SubSeq(path, Len(root) + 1, Len(path))
           IN  \/ rel = << >>
               \/ rel \in fsys[root].dirs
               \/ \E i \in 1..Len(fsys[root].files) :
                      IsParent(rel, fsys[root].files[i])

\* Path.is_file(): of the roots, the archive and the file that is none
IsFile(fsys, path) ==
    path \in DOMAIN fsys /\ fsys[path].kind \in {"zip", "corrupt"}

NONE == "none"

\* ZipFile(archive).namelist(), or the exception ZipFile raises
NameList(fsys, archive) ==
    IF archive \notin DOMAIN fsys \/ fsys[archive].kind \in {"missing", "dir"}
    THEN [raised |-> "FileNotFoundError", names |-> << >>]
    ELSE IF fsys[archive].kind = "corrupt"
    THEN [raised |-> "BadZipFile", names |-> << >>]
    ELSE [raised |-> NONE,
          names |-> [i \in 1..Len(fsys[archive].files) |->
                        StrOf(fsys[archive].files[i])]]

\* the cache with the members of an archive added, as Paths
Cached(cache, archive, names) ==
    [a \in DOMAIN cache \cup {archive} |->
        IF a = archive THEN [i \in 1..Len(names) |-> PathOf(names[i])]
        ELSE cache[a]]

\* the first half of PluginFinder.zip_has_dir: an archive that is not in the
\* cache is opened and its members are put there
Opened(cache, archive, listed) ==
    IF listed.raised # NONE
    THEN [raised |-> listed.raised, cache |-> cache, opened |-> << >>]
    ELSE [raised |-> NONE, cache |-> Cached(cache, archive, listed.names),
          opened |-> <<archive>>]

\* zip_has_dir that reads the archive whether it is in the cache or not
ReadArchive_uncached(cache, fsys, archive) ==
    Opened(cache, archive, NameList(fsys, archive))

ReadArchive(cache, fsys, archive) ==
    IF archive \in DOMAIN cache
    THEN [raised |-> NONE, cache |-> cache, opened |-> << >>]
    ELSE Opened(cache, archive, NameList(fsys, archive))

\* zip_has_dir that looks for the path among the members themselves
HasDir_exact(read, archive, path) ==
    [raised |-> read.raised, cache |-> read.cache, opened |-> read.opened,
     has |-> /\ read.raised = NONE
             /\ \E i \in 1..Len(read.cache[archive]) :
                    path = read.cache[archive][i]]

\* the second half: some cached member has the path as an ancestor
HasDir(read, archive, path) ==
    [raised |-> read.raised, cache |-> read.cache, opened |-> read.opened,
     has |-> /\ read.raised = NONE
             /\ \E i \in 1..Len(read.cache[archive]) :
                    IsParent(path, read.cache[archive][i])]

\* PluginFinder.zip_has_dir: the answer, the cache after the call, the
\* archives that the call opened and read, and the exception that left it,
\* if any
zip_has_dir(cache, fsys, archive, path) ==
    HasDir(ReadArchive(cache, fsys, archive), archive, path)

\* the archive branch of the loop of search_locations; FileNotFoundError is
\* suppressed
ScanArchive(scan, location, z) ==
    IF z.raised = "FileNotFoundError" THEN [scan EXCEPT !.cache = z.cache]
    ELSE IF z.raised # NONE
    THEN [scan EXCEPT !.raised = z.raised, !.cache = z.cache]
    ELSE IF z.has
    THEN [scan EXCEPT !.cache = z.cache, !.opened = @ \o z.opened,
                      !.locations = Append(@, location)]
    ELSE [scan EXCEPT !.cache = z.cache, !.opened = @ \o z.opened]

\* one round of the loop of PluginFinder.search_locations: scan is the
\* locations and the cache so far, and the exception that ended the loop
ScanCandidate(scan, path, parts, fsys) ==
    IF scan.raised # NONE THEN scan
    ELSE IF IsDir(fsys, JoinPath(path, parts))
    THEN [scan EXCEPT !.locations = Append(@, StrOf(JoinPath(path, parts)))]
    ELSE IF IsFile(fsys, path) /\ Suffix(path) \in ARCHIVE_SUFFIXES
    THEN ScanArchive(scan, StrOf(JoinPath(path, parts)),
                     zip_has_dir(scan.cache, fsys, path, parts))
    ELSE scan

ScanEntry(scan, entry, parts, fsys) ==
    ScanCandidate(scan, PathOf(entry), parts, fsys)

RECURSIVE ScanPath(_, _, _, _)
ScanPath(entries, parts, scan, fsys) ==
    IF entries = << >> THEN scan
    ELSE ScanPath(Tail(entries), parts,
                  ScanEntry(scan, Head(entries), parts, fsys), fsys)

\* a call that raised returns nothing
Returned(scan) ==
    IF scan.raised # NONE THEN [scan EXCEPT !.locations = << >>] ELSE scan

\* PluginFinder.search_locations
search_locations(fullname, path, cache, fsys) ==
    Returned(ScanPath(FromKeys(path, << >>), Split(fullname, DOT),
                      [raised |-> NONE, cache |-> cache, opened |-> << >>,
                       locations |-> << >>],
                      fsys))

\* PluginFinder.partition: the dotted prefixes of a name
partition(name) ==
    LET parts == Split(name, DOT)
    IN  {Join(SubSeq(parts, 1, n), DOT) : n \in 1..Len(parts)}

\* PluginFinder.__init__ as initialize() calls it
Packages == partition(FullName(EXTRACTOR)) \cup partition(FullName(POSTPROCESSOR))

\* PluginLoader: the loader of a virtual package, which runs no code
PluginLoader == "PluginLoader"

\* None, where a ModuleSpec is expected
NO_SPEC ==
    [name |-> << >>, loader |-> NONE, is_package |-> FALSE,
     submodule_search_locations |-> << >>]

\* the second half of PluginFinder.find_spec
SpecOf(fullname, found) ==
    IF found.raised # NONE \/ found.locations = << >>
    THEN [raised |-> found.raised, cache |-> found.cache,
          opened |-> found.opened, spec |-> NO_SPEC]
    ELSE [raised |-> NONE, cache |-> found.cache, opened |-> found.opened,
          spec |-> [name |-> fullname, loader |-> PluginLoader,
                    is_package |-> TRUE,
                    submodule_search_locations |-> found.locations]]

\* find_spec without the test of line 75: every name is searched for
find_spec_of_any_name(fullname, path, cache, fsys) ==
    SpecOf(fullname, search_locations(fullname, path, cache, fsys))

\* PluginFinder.find_spec: the spec (NO_SPEC for None), the cache after the
\* call, the archives that it read and the exception that left it, if any
find_spec(fullname, path, cache, fsys) ==
    IF fullname \notin Packages
    THEN [raised |-> NONE, cache |-> cache, opened |-> << >>,
          spec |-> NO_SPEC]
    ELSE SpecOf(fullname, search_locations(fullname, path, cache, fsys))

\* the finders of sys.meta_path
PLUGIN_FINDER == "PluginFinder"
DEFAULT_FINDERS == <<"BuiltinImporter", "FrozenImporter", "PathFinder">>

\* the import system asks the finders of sys.meta_path in order, until one
\* has a spec or raises; the default finders find in a root only what the
\* PluginFinder finds there, so that after it they have nothing to add
\* declined are the finders that were asked and had no spec
Answered(asked, found) ==
    [raised |-> found.raised, cache |-> found.cache,
     opened |-> asked.opened \o found.opened, spec |-> found.spec,
     declined |-> IF found.raised = NONE /\ found.spec = NO_SPEC
                  THEN Append(asked.declined, PLUGIN_FINDER)
                  ELSE asked.declined]

AskFinder(asked, finder, fullname, path, fsys) ==
    IF asked.raised # NONE \/ asked.spec # NO_SPEC THEN asked
    ELSE IF finder # PLUGIN_FINDER
    THEN [asked EXCEPT !.declined = Append(@, finder)]
    ELSE Answered(asked, find_spec(fullname, path, asked.cache, fsys))

RECURSIVE AskFinders(_, _, _, _, _)
AskFinders(finders, asked, fullname, path, fsys) ==
    IF finders = << >> THEN asked
    ELSE AskFinders(Tail(finders),
                    AskFinder(asked, Head(finders), fullname, path, fsys),
                    fullname, path, fsys)

\* sys.modules with a module added
WithModule(modules, fullname, module) ==
    [n \in DOMAIN modules \cup {fullname} |->
        IF n = fullname THEN module ELSE modules[n]]

\* the module of a spec is made and put in sys.modules; no finder has the
\* name: ModuleNotFoundError
Loaded(done, fullname, asked) ==
    IF asked.raised # NONE
    THEN [done EXCEPT !.raised = asked.raised, !.cache = asked.cache,
                      !.opened = @ \o asked.opened]
    ELSE IF asked.spec = NO_SPEC
    THEN [done EXCEPT !.raised = "ModuleNotFoundError", !.cache = asked.cache,
                      !.opened = @ \o asked.opened]
    ELSE [raised |-> NONE, cache |-> asked.cache,
          opened |-> done.opened \o asked.opened,
          modules |-> WithModule(done.modules, fullname,
                          [path |-> asked.spec.submodule_search_locations,
                           loader |-> asked.spec.loader,
                           declined |-> asked.declined])]

\* importlib's find-and-load of one name: from sys.modules when it is there
ImportOne(done, fullname, finders, path, fsys) ==
    IF done.raised # NONE \/ fullname \in DOMAIN done.modules THEN done
    ELSE Loaded(done, fullname,
                AskFinders(finders,
                           [raised |-> NONE, cache |-> done.cache,
                            opened |-> << >>, spec |-> NO_SPEC,
                            declined |-> << >>],
                           fullname, path, fsys))

\* importlib.import_module(fullname): the parents first
RECURSIVE ImportChain(_, _, _, _, _)
ImportChain(names, done, finders, path, fsys) ==
    IF names = << >> THEN done
    ELSE ImportChain(Tail(names),
                     ImportOne(done, Head(names), finders, path, fsys),
                     finders, path, fsys)

\* the dotted prefixes of a name, shortest first
Prefixes(name) ==
    LET parts == Split(name, DOT)
    IN  [n \in 1..Len(parts) |-> Join(SubSeq(parts, 1, n), DOT)]

import_module(fullname, modules, finders, path, cache, fsys) ==
    ImportChain(Prefixes(fullname),
                [raised |-> NONE, cache |-> cache, opened |-> << >>,
                 modules |-> modules],
                finders, path, fsys)

\* importlib.util.find_spec(PACKAGE_NAME) for a package that is not in
\* sys.modules: the finders of sys.meta_path are asked, nothing is imported
SearchedSpec(asked) ==
    [raised |-> asked.raised, cache |-> asked.cache, opened |-> asked.opened,
     locations |-> asked.spec.submodule_search_locations]

\* directories(): the locations of the spec of the package, which is the
\* spec of the module when the package is in sys.modules, and [] for no spec
directories(modules, finders, path, cache, fsys) ==
    IF PACKAGE_NAME \in DOMAIN modules
    THEN [raised |-> NONE, cache |-> cache, opened |-> << >>,
          locations |-> modules[PACKAGE_NAME].path]
    ELSE SearchedSpec(AskFinders(finders,
                                 [raised |-> NONE, cache |-> cache,
                                  opened |-> << >>, spec |-> NO_SPEC,
                                  declined |-> << >>],
                                 PACKAGE_NAME, path, fsys))

\* ---------------------------------------------------------- plugin modules

IE == <<"IE">>
PP == <<"PP">>

\* a member that the code of a module defines: a class of the module itself
\* (module << >>), a class imported from a module of yt-dlp, a class imported
\* from the plugin module beside it (sibling), or a function
Declared(name, ie_name, broken) ==
    [name |-> name, isclass |-> TRUE, module |-> << >>, sibling |-> << >>,
     IE_NAME |-> ie_name, broken |-> broken]
Imported_(name, module) ==
    [name |-> name, isclass |-> TRUE, module |-> module, sibling |-> << >>,
     IE_NAME |-> << >>, broken |-> FALSE]
FromSibling(name, ie_name, sibling) ==
    [name |-> name, isclass |-> TRUE, module |-> << >>, sibling |-> sibling,
     IE_NAME |-> ie_name, broken |-> FALSE]
Function(name) ==
    [name |-> name, isclass |-> FALSE, module |-> << >>, sibling |-> << >>,
     IE_NAME |-> << >>, broken |-> FALSE]

FAILS == [ok |-> FALSE, members |-> {}]
Defines(members) == [ok |-> TRUE, members |-> members]

\* what running each plugin file does: it raises, or it defines members.
\* a.py and b.py both define FooIE; the class BarIE cannot be constructed;
\* c.py defines a class with the name of a builtin extractor and imports
\* LibIE from c_lib.py, the module beside it
Source(name) ==
    IF name = PY(<<"a">>)
    THEN Defines({Declared(<<"Foo", "IE">>, <<"foo">>, FALSE),
                  Declared(<<"Helper">>, << >>, FALSE),
                  Imported_(<<"PeerTube", "IE">>,
                            <<"yt_dlp", DOT, "extractor", DOT, "peertube">>),
                  Function(<<"make", "IE">>)})
    ELSE IF name = PY(<<"b">>)
    THEN Defines({Declared(<<"Foo", "IE">>, <<"foo">>, FALSE),
                  Declared(<<"Bar", "IE">>, <<"bar">>, TRUE)})
    ELSE IF name = PY(<<"c">>)
    THEN Defines({Declared(<<"Youtube", "IE">>, <<"youtube">>, FALSE),
                  FromSibling(<<"Lib", "IE">>, <<"lib">>, <<"c", "_lib">>)})
    ELSE IF name = PY(<<"c", "_lib">>)
    THEN Defines({Declared(<<"Lib", "IE">>, <<"lib">>, FALSE)})
    ELSE IF name = PY(<<"p">>)
    THEN Defines({Declared(<<"Ex", "PP">>, << >>, FALSE),
                  Imported_(<<"FFmpeg", "PP">>,
                            <<"yt_dlp", DOT, "postprocessor", DOT, "ffmpeg">>)})
    ELSE FAILS

\* inspect.getmodulename of a file name
ModuleName(filename) == SubSeq(filename, 1, Len(filename) - 1)

\* the modules that the importer of one location yields, sorted by file
\* name: the *.py files right there, __init__ left out
Yielded(location, fullname, rel, filenames, importer) ==
    [i \in 1..Len(filenames) |->
        [name |-> fullname \o <<DOT>> \o ModuleName(filenames[i]),
         file |-> location \o <<SLASH>> \o filenames[i],
         source |-> filenames[i],
         importer |-> importer]]

ModuleFiles(files, rel) ==
    {Last(file) : file \in
        {f \in Range(files) :
            /\ Len(f) = Len(rel) + 1
            /\ SubSeq(f, 1, Len(rel)) = rel
            /\ Last(Last(f)) = ".py"
            /\ Last(f) # <<"__init__", ".py">>}}

InRoot(location, fullname, root, path, fsys) ==
    IF fsys[root].kind \notin {"dir", "zip"} THEN << >>
    ELSE Yielded(location, fullname, SubSeq(path, Len(root) + 1, Len(path)),
                 SortedStrs(ModuleFiles(fsys[root].files,
                                        SubSeq(path, Len(root) + 1, Len(path)))),
                 IF fsys[root].kind = "zip" THEN "zipimporter" ELSE "FileFinder")

RootOf(fsys, path) == CHOOSE root \in DOMAIN fsys : StartsWith(path, root)

\* pkgutil.get_importer(location).iter_modules(prefix)
LocationModules(location, fullname, fsys) ==
    InRoot(location, fullname, RootOf(fsys, PathOf(location)), PathOf(location),
           fsys)

\* pkgutil.iter_modules: a name is yielded once, from the first location
NotYet(infos, more) ==
    infos \o SelectSeq(more, LAMBDA m :
                 \A i \in 1..Len(infos) : infos[i].name # m.name)

RECURSIVE Enumerate(_, _, _, _)
Enumerate(locations, infos, fullname, fsys) ==
    IF locations = << >> THEN infos
    ELSE Enumerate(Tail(locations),
                   NotYet(infos, LocationModules(Head(locations), fullname, fsys)),
                   fullname, fsys)

\* iter_modules: ModuleNotFoundError is suppressed
Iterated(imported, fullname, fsys) ==
    IF imported.raised = "ModuleNotFoundError"
    THEN [raised |-> NONE, cache |-> imported.cache,
          opened |-> imported.opened,
          modules |-> imported.modules, infos |-> << >>]
    ELSE IF imported.raised # NONE
    THEN [raised |-> imported.raised, cache |-> imported.cache,
          opened |-> imported.opened,
          modules |-> imported.modules, infos |-> << >>]
    ELSE [raised |-> NONE, cache |-> imported.cache,
          opened |-> imported.opened,
          modules |-> imported.modules,
          infos |-> Enumerate(imported.modules[fullname].path, << >>,
                              fullname, fsys)]

iter_modules(subpackage, modules, finders, path, cache, fsys) ==
    Iterated(import_module(FullName(subpackage), modules, finders, path, cache,
                           fsys),
             FullName(subpackage), fsys)

\* the name of the module beside a module, and its file
SiblingName(info, sibling) ==
    SubSeq(info.name, 1, Len(info.name) - Len(ModuleName(info.source)))
        \o sibling
SiblingFile(info, sibling) ==
    SubSeq(info.file, 1, Len(info.file) - Len(info.source)) \o PY(sibling)

\* __module__ of a member of a module
ModuleOf(info, m) ==
    IF m.sibling # << >> THEN SiblingName(info, m.sibling)
    ELSE IF m.module = << >> THEN info.name
    ELSE m.module

\* inspect.getfile of a member of a module
FileOf(info, m) ==
    IF m.sibling # << >> THEN SiblingFile(info, m.sibling)
    ELSE IF m.module = << >> THEN info.file
    ELSE m.module

\* the members that getmembers finds in a module that was run: harvested is
\* the module in which it finds them
Objects(info) ==
    {[name |-> m.name, isclass |-> m.isclass,
      module |-> ModuleOf(info, m), file |-> FileOf(info, m),
      harvested |-> info.name,
      IE_NAME |-> m.IE_NAME, broken |-> m.broken] :
        m \in Source(info.source).members}

\* load_plugins.gen_predicate
check_predicate(obj, suffix, package_name) ==
    /\ obj.isclass
    /\ EndsWith(obj.name, suffix)
    /\ StartsWith(obj.module, package_name)

\* dict(getmembers(module, gen_predicate(module_name)))
ModuleClasses(info, suffix) ==
    [name \in {obj.name : obj \in
                 {o \in Objects(info) : check_predicate(o, suffix, info.name)}}
        |-> CHOOSE obj \in Objects(info) : obj.name = name]

\* dict.update
Update(dict, other) ==
    [key \in DOMAIN dict \cup DOMAIN other |->
        IF key \in DOMAIN other THEN other[key] ELSE dict[key]]

Without(dict, keys) == [key \in DOMAIN dict \ keys |-> dict[key]]

\* the merge of the classes of one module at the end of the loop
Merged(classes, module_classes) ==
    Update(classes,
           Without(module_classes, DOMAIN classes \cap DOMAIN module_classes))

\* the keys of the dict in the order of their insertion: the new keys of a
\* module follow, in the order of getmembers, which sorts by name
Inserted(order, classes, module_classes) ==
    order \o SortedStrs(DOMAIN module_classes \ DOMAIN classes)

\* a module whose failure leaves the pass
LoadOne_unguarded(pass, info, suffix) ==
    IF pass.raised # NONE THEN pass
    ELSE IF ~Source(info.source).ok THEN [pass EXCEPT !.raised = "Exception"]
    ELSE [pass EXCEPT !.classes = Merged(@, ModuleClasses(info, suffix)),
                      !.order = Inserted(@, pass.classes,
                                         ModuleClasses(info, suffix))]

\* one round of the loop of load_plugins: a module that fails is skipped
LoadOne(pass, info, suffix) ==
    IF pass.raised # NONE \/ ~Source(info.source).ok THEN pass
    ELSE [pass EXCEPT !.classes = Merged(@, ModuleClasses(info, suffix)),
                      !.order = Inserted(@, pass.classes,
                                         ModuleClasses(info, suffix))]

RECURSIVE LoadLoop(_, _, _)
LoadLoop(infos, pass, suffix) ==
    IF infos = << >> THEN pass
    ELSE LoadLoop(Tail(infos), LoadOne(pass, Head(infos), suffix), suffix)

Passed(iterated, suffix) ==
    IF iterated.raised # NONE
    THEN [raised |-> iterated.raised, cache |-> iterated.cache,
          opened |-> iterated.opened,
          modules |-> iterated.modules, classes |-> << >>, order |-> << >>]
    ELSE LoadLoop(iterated.infos,
                  [raised |-> NONE, cache |-> iterated.cache,
                   opened |-> iterated.opened,
                   modules |-> iterated.modules, classes |-> << >>,
                   order |-> << >>],
                  suffix)

\* load_plugins(name, suffix): the classes and the order of their names in
\* the dict, sys.modules and the cache after the call, and the exception
\* that left it, if any
load_plugins(name, suffix, modules, finders, path, cache, fsys) ==
    Passed(iter_modules(name, modules, finders, path, cache, fsys), suffix)

\* ---------------------------------------------------------- the debug header

\* hasattr(cls, "IE_NAME")
HasIEName(cls) == cls.IE_NAME # << >>

\* cls().IE_NAME raises when the class cannot be constructed
NameRaises(cls) == HasIEName(cls) /\ cls.broken

\* alt_name
AltName(name, cls) == IF HasIEName(cls) THEN cls.IE_NAME ELSE name

\* f"{name!r}"
Repr(name) == <<"'">> \o name \o <<"'">>

\* full_name
FullNameOf(name, alt_name) ==
    IF StartsWith(name, alt_name) THEN Repr(name)
    ELSE Repr(name) \o <<" [">> \o alt_name \o <<"]">>

\* Path.cwd(): the process runs in /d1
CWD == RootPath(D1)

\* path.relative_to(cwd), the path itself on ValueError
RelativeTo(path, cwd) ==
    IF StartsWith(path, cwd) THEN SubSeq(path, Len(cwd) + 1, Len(path))
    ELSE path

\* plugin_list, as a set: it is sorted before it is used
PluginList(found) ==
    {[path |-> RelativeTo(PathOf(found[name].file), CWD),
      name |-> FullNameOf(name, AltName(name, found[name]))] :
        name \in DOMAIN found}

\* (path, name) < (path, name)
LessEntry(x, y) ==
    LessPath(x.path, y.path) \/ (x.path = y.path /\ LessStr(x.name, y.name))

\* sorted(plugin_list)
SortedList(list) ==
    [i \in 1..Cardinality(list) |->
        CHOOSE x \in list : Cardinality({y \in list : LessEntry(y, x)}) = i - 1]

Max(numbers) == CHOOSE n \in numbers : \A m \in numbers : m <= n
Min(numbers) == CHOOSE n \in numbers : \A m \in numbers : n <= m

\* f"  {name:{gap_size}} imported from '{path!s}'"
Line(entry, gap_size) ==
    <<"  ">> \o entry.name
        \o [i \in 1..(gap_size - Width(entry.name)) |-> " "]
        \o <<" imported from '">> \o StrOf(entry.path) \o <<"'">>

BANNER == <<"The following plugins that are not released by yt-dlp:">>

Lines(sorted, gap_size) ==
    [i \in 1..Len(sorted) |-> Line(sorted[i], gap_size)]

\* plugin_debug_header that writes its banner whatever the list is
Written_with_banner(list) ==
    IF list = {} THEN <<BANNER>>
    ELSE <<BANNER>> \o Lines(SortedList(list),
                             Max({Width(entry.name) : entry \in list}))

\* what plugin_debug_header writes with write_debug
Written(list) ==
    IF list = {} THEN << >>
    ELSE <<BANNER>> \o Lines(SortedList(list),
                             Max({Width(entry.name) : entry \in list}))

\* ------------------------------------------------------------------- state

VARIABLES
    sys_path,           \* sys.path
    fs,                 \* the file system: what is at the path of each root
    _zip_content_cache, \* PluginFinder._zip_content_cache
    sys_modules,        \* sys.modules, the plugin packages of it
    meta_path,          \* sys.meta_path
    _INITIALIZED,       \* the flag of initialize()
    last,               \* the last call: what was called, its result
    stale,              \* sys.path or a root changed since the caches were reset
    _FOUND,             \* the plugin registry
    extractor,          \* yt_dlp.extractor.__dict__, the classes of it
    _ALL_CLASSES,       \* yt_dlp.extractor._ALL_CLASSES
    postprocessor,      \* yt_dlp.postprocessor.__dict__, the classes of it
    passes,             \* calls of add_plugins() so far
    opened,             \* the archives read since the caches were reset
    returned,           \* what the last call of load_plugins returned
    pc,                 \* where each thread is in its call of initialize()
    call,               \* the call of Auf1IE.call_with_retries: its locals
    pager               \* the generator DTubeUserIE.iter_entries: its locals

registry_vars == <<_FOUND, extractor, _ALL_CLASSES, postprocessor, passes>>

thread_vars == <<pc>>
auf1_vars == <<call>>
dtube_vars == <<pager>>

\* what the steps of the loader leave alone
beside_loader == <<thread_vars, auf1_vars, dtube_vars>>

vars == <<sys_path, fs, _zip_content_cache, sys_modules, meta_path,
          _INITIALIZED, last, stale, registry_vars, opened, returned,
          beside_loader>>

EmptyMap == << >>

Call(op, arg, ret, raised) ==
    [op |-> op, arg |-> arg, ret |-> ret, raised |-> raised]

\* load_plugins was not called yet
NOT_CALLED == [called |-> FALSE, kind |-> << >>, names |-> {}]

\* what a pass of load_plugins that returned leaves of itself: its kind and
\* the names of its mapping
Remembered(before, name, r) ==
    IF r.raised = NONE
    THEN [called |-> TRUE, kind |-> name, names |-> DOMAIN r.classes]
    ELSE before

\* the roots, with what is at the path of the archive
FileSystem(z) ==
    [root \in {RootPath(D1), RootPath(D2), ZIP_PATH} |->
        IF root = RootPath(D1) THEN Directory(D1_FILES, {})
        ELSE IF root = RootPath(D2) THEN Directory(D2_FILES, D2_DIRS)
        ELSE z]

\* sys.modules at the start: the package itself, imported from /d1 by the
\* loader of source files before initialize() ran
SourceFileLoader == "SourceFileLoader"
START_MODULES ==
    [n \in {PACKAGE_NAME} |->
        [path |-> <<StrOf(JoinPath(RootPath(D1), <<PACKAGE_NAME>>))>>,
         loader |-> SourceFileLoader, declined |-> << >>]]

\* a class of yt-dlp itself
Builtin(name, module, ie_name) ==
    [name |-> name, isclass |-> TRUE,
     module |-> <<"yt_dlp", DOT>> \o module,
     file |-> <<"yt_dlp", DOT>> \o module, harvested |-> << >>,
     IE_NAME |-> ie_name, broken |-> FALSE]

YOUTUBE_IE ==
    Builtin(<<"Youtube", "IE">>, <<"extractor", DOT, "youtube">>, <<"youtube">>)
GENERIC_IE ==
    Builtin(<<"Generic", "IE">>, <<"extractor", DOT, "generic">>, <<"generic">>)
FFMPEG_PP ==
    Builtin(<<"FFmpeg", "PP">>, <<"postprocessor", DOT, "ffmpeg">>, << >>)

\* a dict of classes by their names
ByName(classes) ==
    [name \in {c.name : c \in classes} |-> CHOOSE c \in classes : c.name = name]

\* the threads that call initialize(), and a thread that has not called it
Threads == 1..MaxThreads
NoCall == [thread \in Threads |-> "start"]

\* call_with_retries is not called yet
NoRetries ==
    [status |-> "none", retry_durations_s |-> << >>, http_error_map |-> << >>,
     at |-> 0, clock |-> 0, invoked |-> << >>, value |-> NONE, raised |-> << >>]

\* iter_entries is not called yet
NoEntries ==
    [status |-> "none", blog |-> 0, inclusive |-> FALSE, last_id |-> 0,
     requested |-> << >>, received |-> << >>, yielded |-> << >>]

\* yt-dlp as it is imported, and no plugin registered; the calls of
\* initialize() are steps of their own
InitHost ==
    /\ pc = NoCall
    /\ call = NoRetries
    /\ pager = NoEntries
    /\ _FOUND = EmptyMap
    /\ extractor = ByName({YOUTUBE_IE, GENERIC_IE})
    /\ _ALL_CLASSES = <<YOUTUBE_IE, GENERIC_IE>>
    /\ postprocessor = ByName({FFMPEG_PP})
    /\ passes = 0

\* the package was imported from /d1, which is on the search path; the
\* archive is not written yet, or a file of its name is there that is none
Init ==
    /\ sys_path = <<D1>>
    /\ \E z \in {Missing, Corrupt} : fs = FileSystem(z)
    /\ _zip_content_cache = EmptyMap
    /\ sys_modules = START_MODULES
    /\ meta_path = DEFAULT_FINDERS
    /\ _INITIALIZED = FALSE
    /\ last = Call("start", NONE, NONE, NONE)
    /\ stale = FALSE
    /\ opened = << >>
    /\ returned = NOT_CALLED
    /\ InitHost

\* initialize() without its flag: every call installs a finder
initialize_unguarded ==
    /\ meta_path' = <<PLUGIN_FINDER>> \o meta_path
    /\ _INITIALIZED' = TRUE
    /\ last' = Call("initialize", NONE, "installed", NONE)
    /\ UNCHANGED <<sys_path, fs, _zip_content_cache, sys_modules, stale,
                   opened, returned>>
    /\ UNCHANGED <<registry_vars, beside_loader>>

\* initialize() that appends its finder to sys.meta_path
initialize_at_the_end ==
    /\ IF _INITIALIZED
       THEN /\ last' = Call("initialize", NONE, "returned", NONE)
            /\ UNCHANGED <<meta_path, _INITIALIZED>>
       ELSE /\ meta_path' = meta_path \o <<PLUGIN_FINDER>>
            /\ _INITIALIZED' = TRUE
            /\ last' = Call("initialize", NONE, "installed", NONE)
    /\ UNCHANGED <<sys_path, fs, _zip_content_cache, sys_modules, stale,
                   opened, returned>>
    /\ UNCHANGED <<registry_vars, beside_loader>>

\* initialize(), in a process that is no PyInstaller executable: a call
\* returns at once when the flag is set, and installs the finder when not
initialize ==
    /\ IF _INITIALIZED
       THEN /\ last' = Call("initialize", NONE, "returned", NONE)
            /\ UNCHANGED <<meta_path, _INITIALIZED>>
       ELSE /\ meta_path' = <<PLUGIN_FINDER>> \o meta_path
            /\ _INITIALIZED' = TRUE
            /\ last' = Call("initialize", NONE, "installed", NONE)
    /\ UNCHANGED <<sys_path, fs, _zip_content_cache, sys_modules, stale,
                   opened, returned>>
    /\ UNCHANGED <<registry_vars, beside_loader>>

\* sys.path.append(entry)
AppendPath(entry) ==
    /\ Len(sys_path) < MaxPathLen
    /\ sys_path' = Append(sys_path, entry)
    /\ stale' = TRUE
    /\ last' = Call("append", entry, NONE, NONE)
    /\ UNCHANGED <<fs, _zip_content_cache, sys_modules, meta_path,
                   _INITIALIZED, opened, returned>>
    /\ UNCHANGED <<registry_vars, beside_loader>>

\* sys.path.remove(entry): the first entry that is equal to it goes
RemovePath(entry) ==
    /\ entry \in Range(sys_path)
    /\ sys_path' = LET i == CHOOSE i \in 1..Len(sys_path) :
                                /\ sys_path[i] = entry
                                /\ \A j \in 1..(i - 1) : sys_path[j] # entry
                   IN  SubSeq(sys_path, 1, i - 1)
                           \o SubSeq(sys_path, i + 1, Len(sys_path))
    /\ stale' = TRUE
    /\ last' = Call("remove", entry, NONE, NONE)
    /\ UNCHANGED <<fs, _zip_content_cache, sys_modules, meta_path,
                   _INITIALIZED, opened, returned>>
    /\ UNCHANGED <<registry_vars, beside_loader>>

\* the *.py files of a tree
PyFiles(files) == SelectSeq(files, LAMBDA file : Last(Last(file)) = ".py")

Reverse(s) == [i \in 1..Len(s) |-> s[Len(s) + 1 - i]]

\* the *.py files of a plugin directory are written to the archive, in the
\* order rglob yields them, which is any
PackArchive ==
    /\ fs[ZIP_PATH].kind = "missing"
    /\ \E files \in {PyFiles(D1_FILES), Reverse(PyFiles(D1_FILES)),
                     PyFiles(D2_FILES)} :
           fs' = [fs EXCEPT ![ZIP_PATH] = Archive(files)]
    /\ stale' = TRUE
    /\ last' = Call("pack", P_ZIP, NONE, NONE)
    /\ UNCHANGED <<sys_path, _zip_content_cache, sys_modules, meta_path,
                   _INITIALIZED, opened, returned>>
    /\ UNCHANGED <<registry_vars, beside_loader>>

\* invalidate_caches that forgets the archives and keeps the packages
invalidate_caches_keeping_modules ==
    /\ PLUGIN_FINDER \in Range(meta_path)
    /\ _zip_content_cache' = EmptyMap
    /\ opened' = << >>
    /\ stale' = FALSE
    /\ last' = Call("invalidate_caches", NONE, NONE, NONE)
    /\ UNCHANGED <<sys_path, fs, sys_modules, meta_path, _INITIALIZED,
                   returned>>
    /\ UNCHANGED <<registry_vars, beside_loader>>

\* PluginFinder.invalidate_caches, as importlib.invalidate_caches calls it
invalidate_caches ==
    /\ PLUGIN_FINDER \in Range(meta_path)
    /\ _zip_content_cache' = EmptyMap
    /\ opened' = << >>
    /\ sys_modules' = [n \in DOMAIN sys_modules \ Packages |-> sys_modules[n]]
    /\ stale' = FALSE
    /\ last' = Call("invalidate_caches", NONE, NONE, NONE)
    /\ UNCHANGED <<sys_path, fs, meta_path, _INITIALIZED, returned>>
    /\ UNCHANGED <<registry_vars, beside_loader>>

Namespaces == {FullName(EXTRACTOR), FullName(POSTPROCESSOR)}

Imported(fullname, r) ==
    /\ sys_modules' = r.modules
    /\ _zip_content_cache' = r.cache
    /\ opened' = opened \o r.opened
    /\ last' = Call("import_module", fullname,
                    IF r.raised = NONE THEN r.modules[fullname].path ELSE NONE,
                    r.raised)

\* importlib.import_module of a plugin namespace
ImportModule(fullname) ==
    /\ _INITIALIZED
    /\ Imported(fullname,
                import_module(fullname, sys_modules, meta_path, sys_path,
                              _zip_content_cache, fs))
    /\ UNCHANGED <<sys_path, fs, meta_path, _INITIALIZED, stale, returned>>
    /\ UNCHANGED <<registry_vars, beside_loader>>

Searched(fullname, r) ==
    /\ _zip_content_cache' = r.cache
    /\ opened' = opened \o r.opened
    /\ last' = Call("search_locations", fullname, r.locations, r.raised)

\* a call of PluginFinder.search_locations
SearchLocations(fullname) ==
    /\ PLUGIN_FINDER \in Range(meta_path)
    /\ Searched(fullname,
                search_locations(fullname, sys_path, _zip_content_cache, fs))
    /\ UNCHANGED <<sys_path, fs, sys_modules, meta_path, _INITIALIZED, stale,
                   returned>>
    /\ UNCHANGED <<registry_vars, beside_loader>>

\* load_plugins with a dict that outlives the call: the classes of the
\* call before are still in it
Loaded_accumulating(name, suffix, r) ==
    /\ sys_modules' = r.modules
    /\ _zip_content_cache' = r.cache
    /\ opened' = opened \o r.opened
    /\ returned' = Remembered(returned, name, r)
    /\ last' = Call("load_plugins",
                    [name |-> name, suffix |-> suffix, before |-> returned],
                    IF r.raised # NONE THEN << >>
                    ELSE IF last.op = "load_plugins" THEN Update(last.ret, r.classes)
                    ELSE r.classes,
                    r.raised)

\* the state after load_plugins(name, suffix) and what it returned; before
\* is what the call before it returned
Loaded_(name, suffix, r) ==
    /\ sys_modules' = r.modules
    /\ _zip_content_cache' = r.cache
    /\ opened' = opened \o r.opened
    /\ returned' = Remembered(returned, name, r)
    /\ last' = Call("load_plugins",
                    [name |-> name, suffix |-> suffix, before |-> returned],
                    IF r.raised = NONE THEN r.classes ELSE << >>, r.raised)

\* the kinds of plugins and the suffix of the classes of each
Kinds == {[name |-> EXTRACTOR, suffix |-> IE], [name |-> POSTPROCESSOR, suffix |-> PP]}

\* a call of load_plugins(name, suffix)
LoadPlugins(name, suffix) ==
    /\ _INITIALIZED
    /\ Loaded_(name, suffix,
               load_plugins(name, suffix, sys_modules, meta_path, sys_path,
                            _zip_content_cache, fs))
    /\ UNCHANGED <<sys_path, fs, meta_path, _INITIALIZED, stale>>
    /\ UNCHANGED <<registry_vars, beside_loader>>

Found(fullname, r) ==
    /\ _zip_content_cache' = r.cache
    /\ opened' = opened \o r.opened
    /\ last' = Call("find_spec", fullname, r.spec, r.raised)

\* a name that the import system asks the finder for and that is none of
\* its packages: a plugin module
MODULE_NAME == FullName(EXTRACTOR) \o <<DOT, "a">>

\* a call of PluginFinder.find_spec
FindSpec(fullname) ==
    /\ PLUGIN_FINDER \in Range(meta_path)
    /\ Found(fullname, find_spec(fullname, sys_path, _zip_content_cache, fs))
    /\ UNCHANGED <<sys_path, fs, sys_modules, meta_path, _INITIALIZED, stale,
                   returned>>
    /\ UNCHANGED <<registry_vars, beside_loader>>

Listed(r) ==
    /\ _zip_content_cache' = r.cache
    /\ opened' = opened \o r.opened
    /\ last' = Call("directories", NONE, r.locations, r.raised)

\* a call of directories()
Directories ==
    /\ Listed(directories(sys_modules, meta_path, sys_path, _zip_content_cache,
                          fs))
    /\ UNCHANGED <<sys_path, fs, sys_modules, meta_path, _INITIALIZED, stale,
                   returned>>
    /\ UNCHANGED <<registry_vars, beside_loader>>

\* the classes of a pass in the order of the dict
Values(r) == [i \in 1..Len(r.order) |-> r.classes[r.order[i]]]

\* add_plugins that makes the registry anew of what each call finds
Registered_anew(ie, pp) ==
    /\ _FOUND' = IF pp.raised = NONE THEN Update(ie.classes, pp.classes)
                 ELSE ie.classes
    /\ extractor' = Update(extractor, ie.classes)
    /\ _ALL_CLASSES' = Values(ie) \o _ALL_CLASSES
    /\ postprocessor' = IF pp.raised = NONE
                        THEN Update(postprocessor, pp.classes)
                        ELSE postprocessor
    /\ sys_modules' = pp.modules
    /\ _zip_content_cache' = pp.cache
    /\ opened' = opened \o ie.opened \o pp.opened
    /\ returned' = Remembered(Remembered(returned, EXTRACTOR, ie),
                              POSTPROCESSOR, pp)
    /\ last' = Call("add_plugins", NONE, NONE, pp.raised)

\* add_plugins that puts the extractors of the pass at the end of the list
Registered_at_the_end(ie, pp) ==
    /\ _FOUND' = IF pp.raised = NONE
                 THEN Update(Update(_FOUND, ie.classes), pp.classes)
                 ELSE Update(_FOUND, ie.classes)
    /\ extractor' = Update(extractor, ie.classes)
    /\ _ALL_CLASSES' = _ALL_CLASSES \o Values(ie)
    /\ postprocessor' = IF pp.raised = NONE
                        THEN Update(postprocessor, pp.classes)
                        ELSE postprocessor
    /\ sys_modules' = pp.modules
    /\ _zip_content_cache' = pp.cache
    /\ opened' = opened \o ie.opened \o pp.opened
    /\ returned' = Remembered(Remembered(returned, EXTRACTOR, ie),
                              POSTPROCESSOR, pp)
    /\ last' = Call("add_plugins", NONE, NONE, pp.raised)

\* the end of add_plugins: the extractors are registered, and the
\* postprocessors when their pass did not raise
Registered(ie, pp) ==
    /\ _FOUND' = IF pp.raised = NONE
                 THEN Update(Update(_FOUND, ie.classes), pp.classes)
                 ELSE Update(_FOUND, ie.classes)
    /\ extractor' = Update(extractor, ie.classes)
    /\ _ALL_CLASSES' = Values(ie) \o _ALL_CLASSES
    /\ postprocessor' = IF pp.raised = NONE
                        THEN Update(postprocessor, pp.classes)
                        ELSE postprocessor
    /\ sys_modules' = pp.modules
    /\ _zip_content_cache' = pp.cache
    /\ opened' = opened \o ie.opened \o pp.opened
    /\ returned' = Remembered(Remembered(returned, EXTRACTOR, ie),
                              POSTPROCESSOR, pp)
    /\ last' = Call("add_plugins", NONE, NONE, pp.raised)

\* the first half of add_plugins: an exception of the pass over the
\* extractors leaves the call before anything is registered
AddExtractors(ie) ==
    IF ie.raised # NONE
    THEN /\ sys_modules' = ie.modules
         /\ _zip_content_cache' = ie.cache
         /\ opened' = opened \o ie.opened
         /\ UNCHANGED returned
         /\ last' = Call("add_plugins", NONE, NONE, ie.raised)
         /\ UNCHANGED <<_FOUND, extractor, _ALL_CLASSES, postprocessor>>
    ELSE Registered(ie, load_plugins(POSTPROCESSOR, PP, ie.modules, meta_path,
                                     sys_path, ie.cache, fs))

\* add_plugins()
add_plugins ==
    /\ _INITIALIZED
    /\ passes < MaxPasses
    /\ passes' = passes + 1
    /\ AddExtractors(load_plugins(EXTRACTOR, IE, sys_modules, meta_path,
                                  sys_path, _zip_content_cache, fs))
    /\ UNCHANGED <<sys_path, fs, meta_path, _INITIALIZED, stale,
                   beside_loader>>

\* the original print_debug_header: what it prints, and what it returns
ORIGINAL == <<"print_debug_header">>
ORIGINAL_RESULT == <<"result of print_debug_header">>

\* the end of plugin_debug_header: the original runs after the lines were
\* written, and what it returns is returned; output is all that was printed
Reported(written) ==
    [written |-> written, original |-> 1,
     output |-> written \o <<ORIGINAL>>, result |-> ORIGINAL_RESULT]

\* plugin_debug_header(self): the lines written and the calls of the
\* original print_debug_header, or the exception of a friendly name
plugin_debug_header ==
    /\ last' = IF \E name \in DOMAIN _FOUND : NameRaises(_FOUND[name])
               THEN Call("plugin_debug_header", NONE,
                         [written |-> << >>, original |-> 0,
                          output |-> << >>, result |-> << >>],
                         "Exception")
               ELSE Call("plugin_debug_header", NONE,
                         Reported(Written(PluginList(_FOUND))), NONE)
    /\ UNCHANGED <<sys_path, fs, _zip_content_cache, sys_modules, meta_path,
                   _INITIALIZED, stale, opened, returned>>
    /\ UNCHANGED <<registry_vars, beside_loader>>

Next ==
    \/ initialize
    \/ \E entry \in Entries : AppendPath(entry)
    \/ PackArchive
    \/ invalidate_caches
    \/ \E fullname \in Namespaces : ImportModule(fullname)
    \/ \E fullname \in Packages : SearchLocations(fullname)
    \/ \E kind \in Kinds : LoadPlugins(kind.name, kind.suffix)

Spec == Init /\ [][Next]_vars

\* main(): initialize() has run, add_plugins() follows, and the patched
\* YoutubeDL prints its debug header; the environment may add roots and
\* take the first one off the search path
InitMain ==
    /\ sys_path = <<D1>>
    /\ \E z \in {Missing, Corrupt} : fs = FileSystem(z)
    /\ _zip_content_cache = EmptyMap
    /\ sys_modules = START_MODULES
    /\ meta_path = <<PLUGIN_FINDER>> \o DEFAULT_FINDERS
    /\ _INITIALIZED = TRUE
    /\ last = Call("initialize", NONE, "installed", NONE)
    /\ stale = FALSE
    /\ opened = << >>
    /\ returned = NOT_CALLED
    /\ InitHost

NextRegistry ==
    \/ add_plugins
    \/ plugin_debug_header
    \/ \E entry \in {D2, P_ZIP} : AppendPath(entry)
    \/ RemovePath(D1)
    \/ PackArchive
    \/ invalidate_caches

SpecRegistry == InitMain /\ [][NextRegistry]_vars

\* the finder at work: initialize() has run; the package was imported from
\* /d1, which is on the search path or was taken off it since
InitFinder ==
    /\ sys_path \in {<<D1>>, << >>}
    /\ \E z \in {Missing, Corrupt} : fs = FileSystem(z)
    /\ _zip_content_cache = EmptyMap
    /\ sys_modules = START_MODULES
    /\ meta_path = <<PLUGIN_FINDER>> \o DEFAULT_FINDERS
    /\ _INITIALIZED = TRUE
    /\ last = Call("initialize", NONE, "installed", NONE)
    /\ stale = FALSE
    /\ opened = << >>
    /\ returned = NOT_CALLED
    /\ InitHost

NextFinder ==
    \/ \E fullname \in Packages \cup {MODULE_NAME} : FindSpec(fullname)
    \/ Directories
    \/ \E kind \in Kinds : LoadPlugins(kind.name, kind.suffix)
    \/ \E entry \in {D2, P_ZIP} : AppendPath(entry)
    \/ PackArchive
    \/ invalidate_caches

SpecFinder == InitFinder /\ [][NextFinder]_vars

\* ------------------------------------------- initialize() in several threads

\* what a step of a thread inside initialize() leaves alone
beside_initialize ==
    <<sys_path, fs, _zip_content_cache, sys_modules, stale, opened, returned,
      registry_vars, auf1_vars, dtube_vars>>

\* `if _INITIALIZED: return`, and the way to the insertion in a process that
\* is no PyInstaller executable; the interpreter may switch threads after it
TestInitialized(thread) ==
    /\ pc[thread] = "start"
    /\ IF _INITIALIZED
       THEN /\ pc' = [pc EXCEPT ![thread] = "returned"]
            /\ last' = Call("initialize", thread, "returned", NONE)
       ELSE /\ pc' = [pc EXCEPT ![thread] = "insert"]
            /\ UNCHANGED last
    /\ UNCHANGED <<meta_path, _INITIALIZED>>
    /\ UNCHANGED beside_initialize

\* sys.meta_path.insert(0, PluginFinder(...))
InsertFinder(thread) ==
    /\ pc[thread] = "insert"
    /\ meta_path' = <<PLUGIN_FINDER>> \o meta_path
    /\ pc' = [pc EXCEPT ![thread] = "flag"]
    /\ UNCHANGED <<_INITIALIZED, last>>
    /\ UNCHANGED beside_initialize

\* _INITIALIZED = True, and the call returns
SetInitialized(thread) ==
    /\ pc[thread] = "flag"
    /\ _INITIALIZED' = TRUE
    /\ pc' = [pc EXCEPT ![thread] = "returned"]
    /\ last' = Call("initialize", thread, "installed", NONE)
    /\ UNCHANGED meta_path
    /\ UNCHANGED beside_initialize

\* each thread calls initialize() once; the program appends roots, packs
\* the archive and imports the namespaces as soon as the flag is set
NextThreads ==
    \/ \E thread \in Threads :
           \/ TestInitialized(thread)
           \/ InsertFinder(thread)
           \/ SetInitialized(thread)
    \/ \E entry \in {D2, P_ZIP} : AppendPath(entry)
    \/ PackArchive
    \/ \E fullname \in Namespaces : ImportModule(fullname)

SpecThreads == Init /\ [][NextThreads]_vars

\* ------------------------------------------------ Auf1IE.call_with_retries

\* the state of the loader and of the threads, which the extractors leave
\* alone
loader_vars ==
    <<sys_path, fs, _zip_content_cache, sys_modules, meta_path, _INITIALIZED,
      last, stale, registry_vars, opened, returned, thread_vars>>

\* an exception: its type, the cause that ExtractorError keeps (an HTTPError
\* with its code, or something else), and the exception it was raised from
NO_CAUSE == [http |-> FALSE, code |-> 0]
HTTPError(code) == [http |-> TRUE, code |-> code]
ExtractorError(cause) ==
    [type |-> "ExtractorError", cause |-> cause, __cause__ |-> << >>]
OtherError(type) == [type |-> type, cause |-> NO_CAUSE, __cause__ |-> << >>]

\* `raise exception from exc`
RaisedFrom(type, exc) ==
    [type |-> type, cause |-> NO_CAUSE, __cause__ |-> <<exc>>]

\* exc.cause.code if isinstance(exc.cause, HTTPError) else None; None is the
\* empty set, a code the set of it
ErrorCode(exc) == IF exc.cause.http THEN {exc.cause.code} ELSE {}

\* a key of http_error_map, an int or a collection of ints, and its item
IntKey(code, exception) ==
    [is_int |-> TRUE, int |-> code, members |-> {}, exception |-> exception]
CollectionKey(codes, exception) ==
    [is_int |-> FALSE, int |-> 0, members |-> codes, exception |-> exception]

\* if isinstance(errors, int): errors = {errors}
Errors(item) == IF item.is_int THEN {item.int} ELSE item.members

\* errorcode in errors
CodeIn(errorcode, item) == errorcode # {} /\ errorcode \subseteq Errors(item)

\* the loop over http_error_map.items() and the bare raise after it: the
\* exception that leaves call_with_retries
RECURSIVE MappedError(_, _, _)
MappedError(items, errorcode, exc) ==
    IF items = << >> THEN exc
    ELSE IF CodeIn(errorcode, Head(items))
    THEN RaisedFrom(Head(items).exception, exc)
    ELSE MappedError(Tail(items), errorcode, exc)

\* the sum of a tuple of numbers
RECURSIVE Sum(_)
Sum(numbers) ==
    IF numbers = << >> THEN 0 ELSE Head(numbers) + Sum(Tail(numbers))

\* the inputs: sleep durations in seconds, the maps that the callers pass,
\* what an invocation of the operation does and how long it takes
Durations == {0, 1, 2}
RetryDurations ==
    UNION {[1..n -> Durations] : n \in 0..MaxRetries}
HTTP_ERROR_MAPS ==
    {<< >>,
     <<IntKey(500, "UnsupportedError")>>,
     <<CollectionKey({404, 429}, "GeoRestrictedError"),
       IntKey(500, "UnsupportedError")>>}
VALUES == {"a", "b"}
FAILURES ==
    {ExtractorError(HTTPError(code)) : code \in {404, 429, 500}}
        \cup {ExtractorError(NO_CAUSE), OtherError("KeyError")}
Took == {0, 2}

\* operation() returned value after took seconds
Succeeded(value, took) ==
    [ok |-> TRUE, value |-> value, exc |-> << >>, clock |-> call.clock + took]

\* operation() raised exc after took seconds
Failed(exc, took) ==
    [ok |-> FALSE, value |-> NONE, exc |-> <<exc>>, clock |-> call.clock + took]

\* the handler that retries whenever a sleep duration is left and the
\* status is 429, whatever time is left
Handled_without_budget(done, exc, sleep_duration_s, time_left) ==
    IF sleep_duration_s # 0 /\ ErrorCode(exc) = {429}
    THEN [call EXCEPT !.invoked = Append(@, done),
                      !.clock = done.clock + sleep_duration_s,
                      !.at = @ + 1]
    ELSE [call EXCEPT !.invoked = Append(@, done),
                      !.clock = done.clock,
                      !.status = "raised",
                      !.raised = <<MappedError(call.http_error_map,
                                               ErrorCode(exc), exc)>>]

\* the handler that raises the exception of the map with no cause
Handled_without_cause(done, exc, sleep_duration_s, time_left) ==
    IF sleep_duration_s # 0 /\ ErrorCode(exc) = {429} /\ time_left > 0
    THEN [call EXCEPT !.invoked = Append(@, done),
                      !.clock = done.clock + sleep_duration_s,
                      !.at = @ + 1]
    ELSE [call EXCEPT !.invoked = Append(@, done),
                      !.clock = done.clock,
                      !.status = "raised",
                      !.raised = <<[MappedError(call.http_error_map,
                                                ErrorCode(exc), exc)
                                       EXCEPT !.__cause__ = << >>]>>]

\* `except ExtractorError as exc`: sleep and go on with the loop, or raise
Handled(done, exc, sleep_duration_s, time_left) ==
    IF sleep_duration_s # 0 /\ ErrorCode(exc) = {429} /\ time_left > 0
    THEN [call EXCEPT !.invoked = Append(@, done),
                      !.clock = done.clock + sleep_duration_s,
                      !.at = @ + 1]
    ELSE [call EXCEPT !.invoked = Append(@, done),
                      !.clock = done.clock,
                      !.status = "raised",
                      !.raised = <<MappedError(call.http_error_map,
                                               ErrorCode(exc), exc)>>]

\* one turn of the loop with what operation() did in it
Turned(done) ==
    IF done.ok
    THEN [call EXCEPT !.invoked = Append(@, done), !.clock = done.clock,
                      !.status = "returned", !.value = done.value]
    ELSE IF done.exc[1].type # "ExtractorError"
    THEN [call EXCEPT !.invoked = Append(@, done), !.clock = done.clock,
                      !.status = "raised", !.raised = done.exc]
    ELSE Handled(done, done.exc[1],
                 (call.retry_durations_s \o <<0>>)[call.at],
                 Sum(call.retry_durations_s) - done.clock)

\* call_with_retries(operation, retry_durations_s, http_error_map) is
\* called: the locals before the loop; clock is time.time() - start
CallWithRetries(retry_durations_s, http_error_map) ==
    /\ call.status # "running"
    /\ call' = [status |-> "running",
                retry_durations_s |-> retry_durations_s,
                http_error_map |-> http_error_map,
                at |-> 1, clock |-> 0, invoked |-> << >>,
                value |-> NONE, raised |-> << >>]
    /\ UNCHANGED <<loader_vars, dtube_vars>>

\* the turn of the loop in which operation() returns
InvokeAndReturn(value, took) ==
    /\ call.status = "running"
    /\ call' = Turned(Succeeded(value, took))
    /\ UNCHANGED <<loader_vars, dtube_vars>>

\* the turn of the loop in which operation() raises
InvokeAndFail(exc, took) ==
    /\ call.status = "running"
    /\ call' = Turned(Failed(exc, took))
    /\ UNCHANGED <<loader_vars, dtube_vars>>

NextRetries ==
    \/ \E retry_durations_s \in RetryDurations :
           \E http_error_map \in HTTP_ERROR_MAPS :
               CallWithRetries(retry_durations_s, http_error_map)
    \/ \E value \in VALUES : \E took \in Took : InvokeAndReturn(value, took)
    \/ \E exc \in FAILURES : \E took \in Took : InvokeAndFail(exc, took)

SpecRetries == InitMain /\ [][NextRetries]_vars

\* -------------------------------------------------- DTubeUserIE.iter_entries

page_size == 50

\* the blog of a user on the server: items with the ids 1, 2, ... in the
\* order of the API; no id is falsy, and last_id = None is 0
Items(from, to) == [i \in 1..(to - from + 1) |-> from + i - 1]

\* what the API answers for a cursor: at most page_size items, from the
\* start without a cursor, and else from the item of the cursor on, that
\* item itself first when the server counts it in
Page(blog, inclusive, last_id) ==
    LET from == IF last_id = 0 THEN 1
                ELSE IF inclusive THEN last_id
                ELSE last_id + 1
        to == IF from + page_size - 1 < blog THEN from + page_size - 1
              ELSE blog
    IN  Items(from, to)

\* a loop that yields every item of every page
start_idx_of_no_cursor(result, last_id) == 0

\* start_idx = 1 if result and result[0]["_id"] == last_id else 0
start_idx(result, last_id) ==
    IF result # << >> /\ result[1] = last_id THEN 1 ELSE 0

\* result[start_idx:]
From(result, idx) == SubSeq(result, idx + 1, Len(result))

\* one turn of the loop of iter_entries with the page that the API gave
Paged(result) ==
    [pager EXCEPT
        !.requested = Append(@, pager.last_id),
        !.received = Append(@, result),
        !.yielded = @ \o From(result, start_idx(result, pager.last_id)),
        !.status = IF Len(result) < page_size THEN "returned" ELSE @,
        !.last_id = IF Len(result) < page_size \/ result = << >> THEN @
                    ELSE Last(result)]

\* iter_entries(user_id, endpoint) is called and the generator is started
IterEntries(blog, inclusive) ==
    /\ pager.status # "running"
    /\ pager' = [status |-> "running", blog |-> blog, inclusive |-> inclusive,
                 last_id |-> 0, requested |-> << >>, received |-> << >>,
                 yielded |-> << >>]
    /\ UNCHANGED <<loader_vars, auf1_vars>>

\* a turn of the loop: the request, the items yielded, and the end or the
\* new cursor
NextPage ==
    /\ pager.status = "running"
    /\ pager' = Paged(Page(pager.blog, pager.inclusive, pager.last_id))
    /\ UNCHANGED <<loader_vars, auf1_vars>>

\* a turn of the loop whose request fails: _download_json raises, and the
\* exception leaves the generator
FailedPage ==
    /\ pager.status = "running"
    /\ pager' = [pager EXCEPT !.requested = Append(@, pager.last_id),
                              !.status = "raised"]
    /\ UNCHANGED <<loader_vars, auf1_vars>>

NextEntries ==
    \/ \E blog \in 0..MaxItems : \E inclusive \in BOOLEAN :
           IterEntries(blog, inclusive)
    \/ NextPage
    \/ FailedPage

SpecEntries == InitMain /\ [][NextEntries]_vars

\* ------------------------------------------------------------------ claims

\* what is on the file system, read without the finder: an entry contributes
\* to a namespace when it is a directory with the chain of the namespace
\* below it, or an archive of a known suffix with a member below that chain
Contributes(entry, fullname) ==
    LET path == PathOf(entry)
        parts == Split(fullname, DOT)
    IN  \/ IsDir(fs, JoinPath(path, parts))
        \/ /\ path \in DOMAIN fs
           /\ fs[path].kind = "zip"
           /\ Suffix(path) \in ARCHIVE_SUFFIXES
           /\ \E file \in Range(fs[path].files) : IsParent(parts, file)

LocationOf(entry, fullname) ==
    StrOf(JoinPath(PathOf(entry), Split(fullname, DOT)))

\* one location for each distinct contributing entry, at its first place
ExpectedLocations(fullname) ==
    LET kept == SelectSeq(FromKeys(sys_path, << >>),
                          LAMBDA entry : Contributes(entry, fullname))
    IN  [i \in 1..Len(kept) |-> LocationOf(kept[i], fullname)]

NoDuplicates(seq) ==
    \A i, j \in 1..Len(seq) : i # j => seq[i] # seq[j]

Count(seq, x) == Cardinality({i \in 1..Len(seq) : seq[i] = x})

\* the pass that the last call of load_plugins made: its namespace, and the
\* modules that it enumerated, in order
PassFullName == FullName(last.arg.name)

PassInfos ==
    IF PassFullName \in DOMAIN sys_modules
    THEN Enumerate(sys_modules[PassFullName].path, << >>, PassFullName, fs)
    ELSE << >>

PassModules == Range(PassInfos)

Loads(info) == Source(info.source).ok

\* the names of the classes of a module that qualify in the pass
Qualifying(info) == DOMAIN ModuleClasses(info, last.arg.suffix)

\* C1: when two different modules of a pass each define a class of the same
\* qualifying name, the name is absent from the mapping that load_plugins
\* returns, and the call does not raise.
C1_CollidingNameIsDropped ==
    last.op = "load_plugins" =>
        \A m1, m2 \in PassModules :
            (m1 # m2 /\ Loads(m1) /\ Loads(m2)) =>
                \A name \in Qualifying(m1) \cap Qualifying(m2) :
                    last.raised = NONE /\ name \notin DOMAIN last.ret

C4_LocationsExactAndDuplicateFree ==
    last.op = "search_locations" =>
        /\ last.raised = NONE
        /\ last.ret = ExpectedLocations(last.arg)
        /\ NoDuplicates(last.ret)

\* C5: after invalidate_caches no registered package is left in sys.modules
\* and the archive cache is empty, so that an import of a namespace that
\* follows it, with nothing changed in between, has the location of every
\* contributing root of the search path, the ones added late included.
C5_InvalidateForcesRescan ==
    /\ last.op = "invalidate_caches" =>
           /\ \A package \in Packages : package \notin DOMAIN sys_modules
           /\ _zip_content_cache = EmptyMap
    /\ (last.op = "import_module" /\ last.raised = NONE /\ ~stale) =>
           \A entry \in Range(sys_path) :
               Contributes(entry, last.arg) =>
                   LocationOf(entry, last.arg)
                       \in Range(sys_modules[last.arg].path)

\* an archive that was packed and appended after the start is among the
\* locations of a namespace imported after invalidate_caches
C5_Witness ==
    /\ last.op = "import_module"
    /\ last.raised = NONE
    /\ ~stale
    /\ P_ZIP \in Range(sys_path)
    /\ LocationOf(P_ZIP, last.arg) \in Range(sys_modules[last.arg].path)

\* C6: however often initialize() is called, sys.meta_path holds exactly one
\* PluginFinder, in front of the finders that were there: the calls after
\* the first change nothing.
C6_InitializeIdempotent ==
    /\ _INITIALIZED =>
           /\ Count(meta_path, PLUGIN_FINDER) = 1
           /\ meta_path = <<PLUGIN_FINDER>> \o DEFAULT_FINDERS
    /\ ~_INITIALIZED => meta_path = DEFAULT_FINDERS

\* a call of initialize() after the first has returned
C6_Witness ==
    /\ last.op = "initialize"
    /\ last.ret = "returned"
    /\ Count(meta_path, PLUGIN_FINDER) = 1

\* the file system with every archive unpacked where it is
Unpacked(fsys) ==
    [root \in DOMAIN fsys |->
        IF fsys[root].kind = "zip" THEN Directory(fsys[root].files, {})
        ELSE fsys[root]]

\* C10: with the caches invalidated, load_plugins returns from the plugin
\* trees that are reachable through archives the set of names that it
\* returns when each archive is the unpacked directory instead, also when a
\* directory and the archive packed from it are both on the search path.
C10_ArchiveLoadsAsDirectory ==
    (last.op = "load_plugins" /\ last.raised = NONE /\ ~stale) =>
        DOMAIN last.ret
            = DOMAIN load_plugins(last.arg.name, last.arg.suffix, EmptyMap,
                                  meta_path, sys_path, EmptyMap,
                                  Unpacked(fs)).classes

\* a class that was harvested from the archive is returned
C10_Witness ==
    /\ last.op = "load_plugins"
    /\ last.raised = NONE
    /\ ~stale
    /\ \E name \in DOMAIN last.ret : StartsWith(last.ret[name].file, P_ZIP)

\* C8: an entry that names an archive which is missing or cannot be read
\* contributes no location and raises nothing: search_locations returns the
\* locations of the other entries.
C8_UnreadableArchiveIsSilent ==
    last.op = "search_locations" =>
        /\ last.raised = NONE
        /\ \A entry \in Range(sys_path) :
               (PathOf(entry) \in DOMAIN fs
                    /\ fs[PathOf(entry)].kind \in {"missing", "corrupt"}) =>
                   LocationOf(entry, last.arg) \notin Range(last.ret)

\* the builtin extractors of yt-dlp as it is imported
BuiltinExtractors == {YOUTUBE_IE, GENERIC_IE}

\* the override set: the builtin extractors whose name a registered plugin
\* class has taken
_OVERRIDDEN ==
    {builtin \in BuiltinExtractors :
        /\ builtin.name \in DOMAIN _FOUND
        /\ extractor[builtin.name] # builtin}

\* C2: when add_plugins has completed, a builtin extractor with the name of
\* a registered plugin extractor is no element of _ALL_CLASSES, and the
\* name looks up the class of the plugin in the extractor table.
C2_BuiltinIsReplaced ==
    (last.op = "add_plugins" /\ last.raised = NONE) =>
        \A builtin \in BuiltinExtractors :
            builtin.name \in DOMAIN _FOUND =>
                /\ builtin \notin Range(_ALL_CLASSES)
                /\ extractor[builtin.name] = _FOUND[builtin.name]
                /\ extractor[builtin.name] # builtin

\* C7: plugin_debug_header raises nothing when the friendly name of a
\* registered class cannot be obtained: every entry of the registry is
\* written under its key and the original header is produced.
C7_DebugHeaderContainsNameFailure ==
    last.op = "plugin_debug_header" =>
        /\ last.raised = NONE
        /\ last.ret.original = 1
        /\ \A name \in DOMAIN _FOUND :
               \E line \in Range(last.ret.written) :
                   StartsWith(line, <<"  ">> \o Repr(name))

\* C9: once add_plugins has run, no class of the override set is an element
\* of _ALL_CLASSES, the name of each is a key of the extractor table, and no
\* step removes a class from the override set.
C9_OverrideSetWellFormed ==
    [][passes' >= 1 =>
          /\ \A cls \in _OVERRIDDEN' :
                 /\ cls \notin Range(_ALL_CLASSES')
                 /\ cls.name \in DOMAIN extractor'
          /\ _OVERRIDDEN \subseteq _OVERRIDDEN']_vars

FreshScan ==
    load_plugins(last.arg.name, last.arg.suffix, EmptyMap, meta_path, sys_path,
                 EmptyMap, fs)

C13_OnlyOwnClassesAreHarvested ==
    (last.op = "load_plugins" /\ last.raised = NONE) =>
        \A name \in DOMAIN last.ret :
            /\ EndsWith(name, last.arg.suffix)
            /\ last.ret[name].module = last.ret[name].harvested

\* C14: every dotted prefix of a namespace that initialize() passes to the
\* PluginFinder is a package of the finder, so that find_spec has a spec for
\* the root package and for each prefix whenever an entry of the search path
\* contains its directory, and directories() returns locations among which is
\* the directory of the package in /d1 while /d1 is on the search path.
C14_PrefixesAreAnswered ==
    /\ \A namespace \in Namespaces :
           Range(Prefixes(namespace)) \subseteq Packages
    /\ (/\ last.op = "find_spec"
        /\ last.arg \in Packages
        /\ \E entry \in Range(sys_path) : Contributes(entry, last.arg)) =>
           /\ last.raised = NONE
           /\ last.ret # NO_SPEC
           /\ last.ret.name = last.arg
    /\ (last.op = "directories" /\ D1 \in Range(sys_path)) =>
           /\ last.raised = NONE
           /\ LocationOf(D1, PACKAGE_NAME) \in Range(last.ret)

C16_EmptyRegistryWritesNothing ==
    (last.op = "plugin_debug_header" /\ _FOUND = EmptyMap) =>
        /\ last.raised = NONE
        /\ last.ret.written = << >>
        /\ last.ret.original = 1

\* add_plugins found nothing, and the header was printed after it
C16_Witness ==
    /\ last.op = "plugin_debug_header"
    /\ passes >= 1
    /\ _FOUND = EmptyMap
    /\ last.ret.original = 1

\* the lines of the plugins in what the header wrote, the banner left out
PluginLines == SubSeq(last.ret.written, 2, Len(last.ret.written))

\* the fields of a line: the name as it is padded, the name, the path
MARKER == " imported from '"
MarkerAt(line) == CHOOSE i \in 1..Len(line) : line[i] = MARKER
NameField(line) == SubSeq(line, 2, MarkerAt(line) - 1)
NameOf(line) == SelectSeq(NameField(line), LAMBDA token : token # " ")
PathField(line) == PathOf(SubSeq(line, MarkerAt(line) + 1, Len(line) - 1))

\* C17: for a plugin registry that is not empty plugin_debug_header writes
\* one line for each entry, the lines ascend by (path, name), and the names
\* are padded to one width, the length of the longest of them.
C17_OneAlignedLinePerEntry ==
    (last.op = "plugin_debug_header" /\ _FOUND # EmptyMap) =>
        /\ Len(PluginLines) = Cardinality(DOMAIN _FOUND)
        /\ \A name \in DOMAIN _FOUND :
               Cardinality({i \in 1..Len(PluginLines) :
                   StartsWith(NameOf(PluginLines[i]), Repr(name))}) = 1
        /\ \A i \in 1..(Len(PluginLines) - 1) :
               LessEntry([path |-> PathField(PluginLines[i]),
                          name |-> NameOf(PluginLines[i])],
                         [path |-> PathField(PluginLines[i + 1]),
                          name |-> NameOf(PluginLines[i + 1])])
        /\ \A i \in 1..Len(PluginLines) :
               Width(NameField(PluginLines[i]))
                   = Max({Width(NameOf(PluginLines[j])) :
                             j \in 1..Len(PluginLines)})

\* C18: when no entry of the search path contributes a location for a
\* namespace, find_spec has no spec for it, raising nothing, and load_plugins
\* for it returns the empty mapping, raising nothing.
C18_NoLocationNoNamespace ==
    /\ (/\ last.op = "find_spec"
        /\ last.arg \in Packages
        /\ \A entry \in Range(sys_path) : ~Contributes(entry, last.arg)) =>
           /\ last.raised = NONE
           /\ last.ret = NO_SPEC
    /\ (/\ last.op = "load_plugins"
        /\ \A entry \in Range(sys_path) :
               ~Contributes(entry, FullName(last.arg.name))) =>
           /\ last.raised = NONE
           /\ last.ret = EmptyMap

\* C19: after initialize() the PluginFinder is the first finder of
\* sys.meta_path and every finder behind it is one that was there before, so
\* that each plugin namespace in sys.modules, and the root package when it is
\* imported anew, is the package of the PluginFinder, and no finder was asked
\* for it before the PluginFinder.
C19_PluginFinderIsAskedFirst ==
    /\ _INITIALIZED =>
           /\ Head(meta_path) = PLUGIN_FINDER
           /\ \A i \in 2..Len(meta_path) : meta_path[i] \in Range(DEFAULT_FINDERS)
    /\ \A fullname \in Packages \cap DOMAIN sys_modules :
           sys_modules[fullname] # START_MODULES[PACKAGE_NAME] =>
               /\ sys_modules[fullname].loader = PluginLoader
               /\ sys_modules[fullname].declined = << >>

\* a namespace was imported after invalidate_caches: the root package, which
\* the finder of source files has too, is the package of the PluginFinder
C19_Witness ==
    /\ last.op = "import_module"
    /\ last.raised = NONE
    /\ Head(meta_path) = PLUGIN_FINDER
    /\ sys_modules[PACKAGE_NAME].loader = PluginLoader
    /\ sys_modules[last.arg].loader = PluginLoader
    /\ sys_modules[last.arg].declined = << >>

\* C20: find_spec answers for its packages only. For a package that has a
\* location it returns the spec of a package with that name whose locations
\* are what search_locations returns at this lookup and whose loader is the
\* PluginLoader, which runs no code; for any other name it returns None,
\* raises nothing, and neither reads an archive nor touches the archive cache.
C20_OnlyPackagesAreAnswered ==
    [][last'.op = "find_spec" =>
           /\ (/\ last'.arg \in Packages
               /\ search_locations(last'.arg, sys_path, _zip_content_cache,
                                   fs).locations # << >>) =>
                  /\ last'.raised = NONE
                  /\ last'.ret.name = last'.arg
                  /\ last'.ret.is_package
                  /\ last'.ret.loader = PluginLoader
                  /\ last'.ret.submodule_search_locations
                         = search_locations(last'.arg, sys_path,
                                            _zip_content_cache, fs).locations
           /\ last'.arg \notin Packages =>
                  /\ last'.raised = NONE
                  /\ last'.ret = NO_SPEC
                  /\ opened' = opened
                  /\ _zip_content_cache' = _zip_content_cache
      ]_vars

\* find_spec has answered for a namespace with a directory and a directory
\* of an archive, and the archive was read for it
C20_Witness ==
    /\ last.op = "find_spec"
    /\ last.arg \in Namespaces
    /\ last.ret.loader = PluginLoader
    /\ Len(last.ret.submodule_search_locations) >= 2
    /\ LocationOf(P_ZIP, last.arg) \in Range(last.ret.submodule_search_locations)
    /\ opened # << >>

\* the places of _ALL_CLASSES that hold a class of a plugin
PluginPlaces(classes) ==
    {i \in 1..Len(classes) : classes[i].harvested # << >>}

\* C21: however often add_plugins() has run, no two places of _ALL_CLASSES
\* hold classes of plugins with one name: a pass adds no class whose name a
\* class of an earlier pass has.
C21_OneEntryPerPluginName ==
    \A i, j \in PluginPlaces(_ALL_CLASSES) :
        _ALL_CLASSES[i].name = _ALL_CLASSES[j].name => i = j

\* after is before with the classes of the pass ie in front of it, each of
\* them once, and nothing else is changed; a pass that raised adds nothing
BlockInFront(ie, before, after) ==
    IF ie.raised # NONE THEN after = before
    ELSE LET n == Cardinality(DOMAIN ie.classes)
         IN  /\ Len(after) = n + Len(before)
             /\ {after[i] : i \in 1..n}
                    = {ie.classes[name] : name \in DOMAIN ie.classes}
             /\ \A i \in 1..n : EndsWith(after[i].name, IE)
             /\ SubSeq(after, n + 1, Len(after)) = before

\* C22: a call of add_plugins() puts the extractor classes that its pass
\* found in one block in front of _ALL_CLASSES; behind the block is the list
\* as it was, in its order, and no postprocessor comes into the list.
C22_ExtractorsAreABlockInFront ==
    [][last'.op = "add_plugins" =>
           BlockInFront(load_plugins(EXTRACTOR, IE, sys_modules, meta_path,
                                     sys_path, _zip_content_cache, fs),
                        _ALL_CLASSES, _ALL_CLASSES')]_vars

\* the second call has put its extractors in front of those of the first
\* call and of the classes of yt-dlp, and it found a postprocessor too
C22_Witness ==
    /\ last.op = "add_plugins"
    /\ last.raised = NONE
    /\ passes = 2
    /\ Len(_ALL_CLASSES) >= 5
    /\ _ALL_CLASSES[1].harvested # << >>
    /\ Last(_ALL_CLASSES) = GENERIC_IE
    /\ \E name \in DOMAIN _FOUND : EndsWith(name, PP)

\* C23: when the calls of initialize() of all threads have returned, however
\* their steps were interleaved, sys.meta_path holds one PluginFinder.
C23_OneFinderAfterConcurrentCalls ==
    (\A thread \in Threads : pc[thread] = "returned") =>
        Count(meta_path, PLUGIN_FINDER) = 1

\* the invocation failed with an ExtractorError that HTTP status 429 caused
TooManyRequests(done) ==
    /\ ~done.ok
    /\ done.exc[1].type = "ExtractorError"
    /\ done.exc[1].cause = HTTPError(429)

\* C24: call_with_retries invokes the operation at most
\* len(retry_durations_s) + 1 times and has ended when it did so that often;
\* it ends by returning the value of the first invocation that succeeded or
\* by raising after an invocation that failed, and an invocation is followed
\* by another only when it failed with an ExtractorError of HTTP status 429,
\* the sleep duration of its turn was not zero, and time was left.
C24_RetriesAreBoundedAndJustified ==
    /\ Len(call.invoked) <= Len(call.retry_durations_s) + 1
    /\ call.status = "running" =>
           Len(call.invoked) <= Len(call.retry_durations_s)
    /\ call.status = "returned" =>
           /\ call.invoked # << >>
           /\ Last(call.invoked).ok
           /\ call.value = Last(call.invoked).value
           /\ call.raised = << >>
    /\ call.status = "raised" =>
           /\ call.invoked # << >>
           /\ ~Last(call.invoked).ok
           /\ call.raised # << >>
           /\ call.value = NONE
    /\ \A i \in 1..(Len(call.invoked) - 1) :
           /\ TooManyRequests(call.invoked[i])
           /\ call.retry_durations_s[i] # 0
           /\ call.invoked[i].clock < Sum(call.retry_durations_s)

\* the third invocation succeeded, after two that were retried
C24_Witness ==
    /\ call.status = "returned"
    /\ Len(call.invoked) = 3
    /\ Len(call.retry_durations_s) = 2
    /\ call.value = "b"

\* the items of http_error_map that have the status of the failure
Matching(exc) ==
    {i \in 1..Len(call.http_error_map) :
        /\ exc.cause.http
        /\ \/ /\ call.http_error_map[i].is_int
              /\ call.http_error_map[i].int = exc.cause.code
           \/ /\ ~call.http_error_map[i].is_int
              /\ exc.cause.code \in call.http_error_map[i].members}

\* C25: when call_with_retries raises after an invocation that failed with an
\* ExtractorError, it raises the exception of the first item of
\* http_error_map with the HTTP status of the failure, an int key or a member
\* of a collection key, with the failure as its cause, and the failure itself
\* when no item has the status; a failure of another status than 429 was
\* never retried.
C25_FailureIsMappedOrReraised ==
    /\ (/\ call.status = "raised"
        /\ Last(call.invoked).exc[1].type = "ExtractorError") =>
           IF Matching(Last(call.invoked).exc[1]) = {}
           THEN call.raised = Last(call.invoked).exc
           ELSE /\ call.raised[1].type
                       = call.http_error_map[
                             Min(Matching(Last(call.invoked).exc[1]))].exception
                /\ call.raised[1].__cause__ = Last(call.invoked).exc
    /\ \A i \in 1..Len(call.invoked) :
           (/\ ~call.invoked[i].ok
            /\ call.invoked[i].exc[1].cause # HTTPError(429)) =>
               /\ i = Len(call.invoked)
               /\ call.status = "raised"

\* a failure of status 429 that was not retried, since no time was left after
\* a retry, is raised as the exception of the collection key that holds 429
C25_Witness ==
    /\ call.status = "raised"
    /\ Len(call.invoked) = 2
    /\ TooManyRequests(Last(call.invoked))
    /\ Len(call.retry_durations_s) = 2
    /\ call.retry_durations_s[2] # 0
    /\ call.raised[1].type = "GeoRestrictedError"
    /\ call.raised[1].__cause__ = Last(call.invoked).exc

\* the items of the pages in order, without the first item of a page that is
\* the cursor of its request
RECURSIVE Expected(_, _, _)
Expected(pages, cursors, items) ==
    IF pages = << >> THEN items
    ELSE Expected(Tail(pages), Tail(cursors),
                  items \o (IF Head(pages) # << >>
                                   /\ Head(pages)[1] = Head(cursors)
                            THEN Tail(Head(pages))
                            ELSE Head(pages)))

\* C26: iter_entries asks for the first page without a cursor and for each
\* further page with the id of the last item of the page before, which had
\* at least 50 items; it has returned exactly when a page of fewer than 50
\* items was received, and that page is the last; the items yielded are the
\* items of the pages in order without the first item of a page that is the
\* cursor, and none is yielded twice.
C26_PagesFollowTheCursor ==
    /\ \A k \in 1..Len(pager.requested) :
           IF k = 1 THEN pager.requested[k] = 0
           ELSE /\ Len(pager.received[k - 1]) >= 50
                /\ pager.requested[k] = Last(pager.received[k - 1])
    /\ \A k \in 1..Len(pager.received) :
           Len(pager.received[k]) < 50 =>
               /\ k = Len(pager.received)
               /\ pager.status = "returned"
    /\ pager.status = "returned" =>
           /\ pager.received # << >>
           /\ Len(Last(pager.received)) < 50
           /\ Len(pager.requested) = Len(pager.received)
    /\ pager.yielded
           = Expected(pager.received,
                      SubSeq(pager.requested, 1, Len(pager.received)), << >>)
    /\ NoDuplicates(pager.yielded)

\* three pages were received from a server that counts the cursor in: the
\* second and the third began with the cursor
C26_Witness ==
    /\ pager.status = "returned"
    /\ pager.inclusive
    /\ Len(pager.received) = 3
    /\ pager.received[2][1] = pager.requested[2]
    /\ pager.received[3][1] = pager.requested[3]
    /\ Len(pager.yielded) = pager.blog

\* C27: each call of plugin_debug_header runs the original
\* print_debug_header once, after everything that the call itself writes,
\* and returns what the original returns, with an empty registry and with
\* one that is not empty.
C27_OriginalRunsOnceAndLast ==
    last.op = "plugin_debug_header" =>
        /\ last.raised = NONE
        /\ Count(last.ret.output, ORIGINAL) = 1
        /\ Last(last.ret.output) = ORIGINAL
        /\ SubSeq(last.ret.output, 1, Len(last.ret.output) - 1)
               = last.ret.written
        /\ last.ret.result = ORIGINAL_RESULT

====
